---- MODULE Spec2Model ----
(***************************************************************************)
(* Model of backend/app.py: the two FastAPI request handlers              *)
(* text_file_endpoint (POST /text-file/) and text_endpoint (POST /text/),  *)
(* the helpers extract_markdown_from_pdf and generate_text_file, and the   *)
(* part of the file system they touch (the directory temp_uploads and the  *)
(* files in it).                                                           *)
(*                                                                         *)
(* Every file-system or library call of a handler is one step, so that the *)
(* calls of different requests can interleave.  Both handlers are `async   *)
(* def` coroutines whose bodies contain no await, so the event loop of a   *)
(* server process runs a handler body to completion before it starts the   *)
(* next one.  Two deployments are modelled.  Under Spec one server process *)
(* serves all requests (the "How to Run" note, `uvicorn main:app`).  Under *)
(* SpecWorkers two server processes share the working directory (uvicorn's *)
(* --workers option), and the steps of the two handler bodies they run     *)
(* interleave freely.                                                      *)
(***************************************************************************)
EXTENDS Integers, Sequences, FiniteSets

\* Number of requests a behaviour receives.  Requests are numbered in the
\* order of their arrival.
NumRequests == 2

Requests == 1..NumRequests

FileRoute == "/text-file/"
TextRoute == "/text/"

NoPrompt == "<missing>"
Prompts == {"Summarize"}

NoName == "<none>"
Filenames == {"a.pdf", "b.pdf"}
\* The names request r may upload under: the first upload is called a.pdf,
\* a later one has that name or another one.
FilenamesOf(r) == IF r = 1 THEN {"a.pdf"} ELSE Filenames
StaleName == "stale.bin"
Names == Filenames \cup {StaleName}

\* File contents.  kind "pdf" is a well-formed document, "junk" a byte
\* stream the converter rejects, "partial" a truncated copy, "empty" a
\* file that was opened for writing and not yet written; "md" is the
\* converter's output.  of identifies the upload the bytes came from.
Data(kind, of) == [kind |-> kind, of |-> of]
NoData == Data("none", 0)

\* The bytes request r uploads.
Upload(r, good) == IF good THEN Data("pdf", r) ELSE Data("junk", r)

\* Form fields of a request plus the behaviour of its environment: disk says
\* whether saving the upload works ("ok"), open() raises ("open") or
\* copyfileobj raises after the file was created ("copy"); ollama says
\* whether the model-serving endpoint answers when this request calls it.
Input(route, prompt, filename, upload, disk, ollama) ==
    [route |-> route, prompt |-> prompt, filename |-> filename,
     upload |-> upload, disk |-> disk, ollama |-> ollama]
NoInput == Input("<none>", NoPrompt, NoName, NoData, "ok", "up")

Inputs(r) ==
    {Input(TextRoute, p, NoName, NoData, "ok", o) : p \in Prompts, o \in {"up", "down"}}
    \cup {Input(TextRoute, NoPrompt, NoName, NoData, "ok", "up")}
    \cup {Input(FileRoute, NoPrompt, "a.pdf", Upload(r, TRUE), "ok", "up")}
    \cup {Input(FileRoute, p, f, Upload(r, g), "ok", o) :
            p \in Prompts, f \in FilenamesOf(r), g \in BOOLEAN, o \in {"up", "down"}}
    \cup {Input(FileRoute, p, f, Upload(r, TRUE), d, "up") :
            p \in Prompts, f \in FilenamesOf(r), d \in {"open", "copy"}}

\* A directory entry.
File(present, ino, data) == [present |-> present, ino |-> ino, data |-> data]
NoFile == File(FALSE, 0, NoData)
StaleFile == File(TRUE, 0, Data("junk", 0))

\* Strings the program builds: a tag, and the values interpolated into it.
Text(tag, prompt, doc, cause) ==
    [tag |-> tag, prompt |-> prompt, doc |-> doc, cause |-> cause]
NoText == Text("", "", NoData, "")

\* What the body of a handler has produced so far: nothing, a returned value,
\* an HTTPException, or any other exception.
Outcome(kind, status, text) == [kind |-> kind, status |-> status, text |-> text]
NoOutcome == Outcome("none", 0, NoText)
Return(text) == Outcome("return", 200, text)
HTTPException(status, text) == Outcome("http", status, text)
Raise(exc) == Outcome("error", 0, Text(exc, "", NoData, ""))

\* An HTTP response.
Response(status, media, key, value) ==
    [status |-> status, media |-> media, key |-> key, value |-> value]
NoResponse == Response(0, "", "", NoText)

VARIABLES
    procs,      \* the server processes, each with one event loop
    req,        \* req[r]: the input of request r, NoInput before it arrives
    pc,         \* pc[r]: the next step of request r
    dirExists,  \* whether the directory temp_uploads exists
    files,      \* files[n]: the entry named n of temp_uploads
    fd,         \* fd[r]: the inode request r has open for writing, 0 if none
    markdown,   \* markdown[r]: the local extracted_markdown of request r
    pending,    \* pending[r]: what the try block of request r produced
    resp,       \* resp[r]: the response sent for request r
    calls,      \* calls[r]: the calls request r made, in order, with their success
    prior       \* prior[r]: the requests already answered when r was dispatched

vars == <<procs, req, pc, dirExists, files, fd, markdown, pending, resp, calls, prior>>

\* A call with its success and, for a library call, what it returned or raised.
Call(name, ok, ret) == [name |-> name, ok |-> ok, ret |-> ret]

InBody(r) == pc[r] \notin {"idle", "recv", "done"}

\* temp_dir / file.filename
TempFilePath(r) == req[r].filename

\* not any(temp_dir.iterdir())
DirEmpty == \A n \in Names : ~files[n].present

InitScratch ==
    /\ dirExists \in BOOLEAN
    /\ files \in {[n \in Names |-> NoFile]} \cup
                 (IF dirExists THEN {[n \in Names |-> IF n = StaleName THEN StaleFile ELSE NoFile]}
                  ELSE {})

InitRequests ==
    /\ req = [r \in Requests |-> NoInput]
    /\ pc = [r \in Requests |-> "idle"]
    /\ fd = [r \in Requests |-> 0]
    /\ markdown = [r \in Requests |-> NoData]
    /\ pending = [r \in Requests |-> NoOutcome]
    /\ resp = [r \in Requests |-> NoResponse]
    /\ calls = [r \in Requests |-> <<>>]
    /\ prior = [r \in Requests |-> {}]

Init == procs = {"main"} /\ InitScratch /\ InitRequests

InitWorkers == procs = {"worker1", "worker2"} /\ InitScratch /\ InitRequests

\* FastAPI's translation of a handler's outcome into a response: a returned
\* dict is sent as JSON with status 200, an HTTPException as JSON
\* {"detail": ...} with its status code, any other exception as the plain
\* text "Internal Server Error" with status 500.
ToResponse(out) ==
    CASE out.kind = "return" -> Response(200, "json", "solution", out.text)
      [] out.kind = "http" -> Response(out.status, "json", "detail", out.text)
      [] OTHER -> Response(500, "text", "", Text("Internal Server Error", "", NoData, ""))

\* A client posts request r.
Receive(r) ==
    /\ pc[r] = "idle"
    /\ \A q \in Requests : q < r => pc[q] # "idle"
    /\ \E in \in Inputs(r) : req' = [req EXCEPT ![r] = in]
    /\ pc' = [pc EXCEPT ![r] = "recv"]
    /\ UNCHANGED <<procs, dirExists, files, fd, markdown, pending, resp, calls, prior>>

\* Dispatch with the form field optional: the body is entered without prompt.
DispatchNoValidation(r) ==
    /\ pc[r] = "recv"
    /\ Cardinality({q \in Requests : InBody(q)}) < Cardinality(procs)
    /\ pc' = [pc EXCEPT ![r] = IF req[r].route = FileRoute THEN "mkdir" ELSE "text"]
    /\ prior' = [prior EXCEPT ![r] = {q \in Requests : pc[q] = "done"}]
    /\ UNCHANGED <<procs, req, dirExists, files, fd, markdown, pending, resp, calls>>

\* prompt: str = Form(...): a request without the field is answered 422 by
\* the framework; otherwise the handler body is entered, on a process whose
\* event loop is not inside a handler body.
Dispatch(r) ==
    /\ pc[r] = "recv"
    /\ IF req[r].prompt = NoPrompt
       THEN /\ resp' = [resp EXCEPT ![r] =
                          Response(422, "json", "detail", Text("field required", "", NoData, "prompt"))]
            /\ pc' = [pc EXCEPT ![r] = "done"]
       ELSE /\ Cardinality({q \in Requests : InBody(q)}) < Cardinality(procs)
            /\ pc' = [pc EXCEPT ![r] = IF req[r].route = FileRoute THEN "mkdir" ELSE "text"]
            /\ resp' = resp
    /\ prior' = [prior EXCEPT ![r] = {q \in Requests : pc[q] = "done"}]
    /\ UNCHANGED <<procs, req, dirExists, files, fd, markdown, pending, calls>>

\* ---- text_file_endpoint ----

Logged(r, name, ok, ret) == [calls EXCEPT ![r] = Append(@, Call(name, ok, ret))]

\* temp_dir.mkdir(exist_ok=True)
Mkdir(r) ==
    /\ pc[r] = "mkdir"
    /\ dirExists' = TRUE
    /\ calls' = Logged(r, "mkdir", TRUE, NoText)
    /\ pc' = [pc EXCEPT ![r] = "open"]
    /\ UNCHANGED <<procs, req, files, fd, markdown, pending, resp, prior>>

\* temp_file_path.open("wb"): creates the file, or truncates the one already
\* there; raises when the directory has gone or the disk refuses.
OpenOk(r) == dirExists /\ req[r].disk # "open"

Open(r) ==
    /\ pc[r] = "open"
    /\ calls' = Logged(r, "open", OpenOk(r), NoText)
    /\ IF OpenOk(r)
       THEN LET old == files[TempFilePath(r)]
                ino == IF old.present THEN old.ino ELSE r
            IN  /\ files' = [files EXCEPT ![TempFilePath(r)] = File(TRUE, ino, Data("empty", r))]
                /\ fd' = [fd EXCEPT ![r] = ino]
                /\ pc' = [pc EXCEPT ![r] = "copy"]
                /\ pending' = pending
       ELSE /\ pending' = [pending EXCEPT ![r] =
                             Raise(IF dirExists THEN "OSError" ELSE "FileNotFoundError")]
            /\ pc' = [pc EXCEPT ![r] = "exists"]
            /\ UNCHANGED <<files, fd>>
    /\ UNCHANGED <<procs, req, dirExists, markdown, resp, prior>>

\* Copy with its exception swallowed: the handler goes on to convert.
CopyContinueOnError(r) ==
    /\ pc[r] = "copy"
    /\ LET cur == files[TempFilePath(r)]
           bytes == IF req[r].disk = "copy" THEN Data("partial", r) ELSE req[r].upload
       IN  files' = IF cur.present /\ cur.ino = fd[r]
                    THEN [files EXCEPT ![TempFilePath(r)] = File(TRUE, cur.ino, bytes)]
                    ELSE files
    /\ fd' = [fd EXCEPT ![r] = 0]
    /\ calls' = Logged(r, "copy", req[r].disk # "copy", NoText)
    /\ pc' = [pc EXCEPT ![r] = "convert"]
    /\ UNCHANGED <<procs, req, dirExists, markdown, pending, resp, prior>>

\* shutil.copyfileobj(file.file, buffer) and the close of the with block: the
\* bytes go to the inode that was opened, which is the file at the path only
\* while nobody has unlinked it.  Uploads are taken to be of one length, so
\* the last writer's bytes are what the inode holds.
Copy(r) ==
    /\ pc[r] = "copy"
    /\ LET cur == files[TempFilePath(r)]
           bytes == IF req[r].disk = "copy" THEN Data("partial", r) ELSE req[r].upload
       IN  files' = IF cur.present /\ cur.ino = fd[r]
                    THEN [files EXCEPT ![TempFilePath(r)] = File(TRUE, cur.ino, bytes)]
                    ELSE files
    /\ fd' = [fd EXCEPT ![r] = 0]
    /\ calls' = Logged(r, "copy", req[r].disk # "copy", NoText)
    /\ IF req[r].disk = "copy"
       THEN /\ pending' = [pending EXCEPT ![r] = Raise("OSError")]
            /\ pc' = [pc EXCEPT ![r] = "exists"]
       ELSE /\ pending' = pending
            /\ pc' = [pc EXCEPT ![r] = "convert"]
    /\ UNCHANGED <<procs, req, dirExists, markdown, resp, prior>>

\* result.document.export_to_markdown(): the markdown rendering of a document.
ExportToMarkdown(data) == Data("md", data.of)

\* The exception DocumentConverter().convert raises on the file, "" if none.
ConvertError(f) ==
    CASE ~f.present -> "FileNotFoundError"
      [] f.data.kind # "pdf" -> "ConversionError"
      [] OTHER -> ""

\* extract_markdown_from_pdf without the except clause: the converter's
\* exception is raised as it is.
ExtractMarkdownUnwrapped(f) ==
    IF ConvertError(f) = ""
    THEN Return(Text("markdown", "", ExportToMarkdown(f.data), ""))
    ELSE Raise(ConvertError(f))

\* extract_markdown_from_pdf(pdf_path): the markdown, or the HTTPException
\* built from the converter's exception.
ExtractMarkdownFromPdf(f) ==
    IF ConvertError(f) = ""
    THEN Return(Text("markdown", "", ExportToMarkdown(f.data), ""))
    ELSE HTTPException(500, Text("Error processing PDF with docling: ", "", NoData, ConvertError(f)))

Convert(r) ==
    /\ pc[r] = "convert"
    /\ LET out == ExtractMarkdownFromPdf(files[TempFilePath(r)])
       IN  /\ calls' = Logged(r, "convert", out.kind = "return", out.text)
           /\ IF out.kind = "return"
              THEN /\ markdown' = [markdown EXCEPT ![r] = out.text.doc]
                   /\ pc' = [pc EXCEPT ![r] = "chat"]
                   /\ pending' = pending
              ELSE /\ pending' = [pending EXCEPT ![r] = out]
                   /\ pc' = [pc EXCEPT ![r] = "exists"]
                   /\ markdown' = markdown
    /\ UNCHANGED <<procs, req, dirExists, files, fd, resp, prior>>

\* ollama.chat(model, messages)['message']['content']: the assistant's reply
\* to one user message made of a prompt and, possibly, a document.
OllamaChat(prompt, doc) == Text("reply", prompt, doc, "")

\* generate_text_file(text, user_prompt): the reply to the prompt followed by
\* the document, or the HTTPException built from the client's exception.
GenerateTextFile(text, user_prompt, ollama) ==
    IF ollama = "up"
    THEN Return(OllamaChat(user_prompt, text))
    ELSE HTTPException(500, Text("Error interacting with Ollama: ", "", NoData, "ConnectionError"))

\* The handler returning the extracted markdown in place of the solution.
ChatReturnsMarkdown(r) ==
    /\ pc[r] = "chat"
    /\ LET out == GenerateTextFile(markdown[r], req[r].prompt, req[r].ollama)
       IN  /\ calls' = Logged(r, "chat", out.kind = "return", out.text)
           /\ pending' = [pending EXCEPT ![r] =
                            IF out.kind = "return"
                            THEN Return(Text("markdown", "", markdown[r], ""))
                            ELSE out]
    /\ pc' = [pc EXCEPT ![r] = "exists"]
    /\ UNCHANGED <<procs, req, dirExists, files, fd, markdown, resp, prior>>

\* solution = generate_text_file(extracted_markdown, prompt); return {"solution": solution}
Chat(r) ==
    /\ pc[r] = "chat"
    /\ LET out == GenerateTextFile(markdown[r], req[r].prompt, req[r].ollama)
       IN  /\ calls' = Logged(r, "chat", out.kind = "return", out.text)
           /\ pending' = [pending EXCEPT ![r] = out]
    /\ pc' = [pc EXCEPT ![r] = "exists"]
    /\ UNCHANGED <<procs, req, dirExists, files, fd, markdown, resp, prior>>

\* The handler is left with outcome out: the response is sent.
Finish(r, out) ==
    /\ pending' = [pending EXCEPT ![r] = out]
    /\ resp' = [resp EXCEPT ![r] = ToResponse(out)]
    /\ pc' = [pc EXCEPT ![r] = "done"]

\* The handler goes on to step next.
Goto(r, next) ==
    /\ pc' = [pc EXCEPT ![r] = next]
    /\ UNCHANGED <<pending, resp>>

\* The cleanup placed after the try block instead of in a finally clause:
\* an exception leaves the handler before it.
ExistsNoFinally(r) ==
    /\ pc[r] = "exists"
    /\ IF pending[r].kind = "return"
       THEN /\ calls' = Logged(r, "exists", files[TempFilePath(r)].present, NoText)
            /\ Goto(r, IF files[TempFilePath(r)].present THEN "unlink" ELSE "direxists")
       ELSE /\ calls' = calls
            /\ Finish(r, pending[r])
    /\ UNCHANGED <<procs, req, dirExists, files, fd, markdown, prior>>

\* finally: if temp_file_path.exists():
Exists(r) ==
    /\ pc[r] = "exists"
    /\ calls' = Logged(r, "exists", files[TempFilePath(r)].present, NoText)
    /\ Goto(r, IF files[TempFilePath(r)].present THEN "unlink" ELSE "direxists")
    /\ UNCHANGED <<procs, req, dirExists, files, fd, markdown, prior>>

\* The cleanup deleting every upload in the directory, not its own path only.
UnlinkAll(r) ==
    /\ pc[r] = "unlink"
    /\ calls' = Logged(r, "unlink", files[TempFilePath(r)].present, NoText)
    /\ IF files[TempFilePath(r)].present
       THEN /\ files' = [n \in Names |-> IF n \in Filenames THEN NoFile ELSE files[n]]
            /\ Goto(r, "direxists")
       ELSE /\ files' = files
            /\ Finish(r, Raise("FileNotFoundError"))
    /\ UNCHANGED <<procs, req, dirExists, fd, markdown, prior>>

\* temp_file_path.unlink(): an exception raised in the finally block
\* replaces the outcome of the try block.
Unlink(r) ==
    /\ pc[r] = "unlink"
    /\ calls' = Logged(r, "unlink", files[TempFilePath(r)].present, NoText)
    /\ IF files[TempFilePath(r)].present
       THEN /\ files' = [files EXCEPT ![TempFilePath(r)] = NoFile]
            /\ Goto(r, "direxists")
       ELSE /\ files' = files
            /\ Finish(r, Raise("FileNotFoundError"))
    /\ UNCHANGED <<procs, req, dirExists, fd, markdown, prior>>

\* if temp_dir.exists() and ...
DirExists(r) ==
    /\ pc[r] = "direxists"
    /\ calls' = Logged(r, "direxists", dirExists, NoText)
    /\ IF dirExists THEN Goto(r, "iterdir") ELSE Finish(r, pending[r])
    /\ UNCHANGED <<procs, req, dirExists, files, fd, markdown, prior>>

\* ... not any(temp_dir.iterdir()):
IterDir(r) ==
    /\ pc[r] = "iterdir"
    /\ calls' = Logged(r, "iterdir", dirExists, NoText)
    /\ CASE ~dirExists -> Finish(r, Raise("FileNotFoundError"))
         [] dirExists /\ DirEmpty -> Goto(r, "rmdir")
         [] OTHER -> Finish(r, pending[r])
    /\ UNCHANGED <<procs, req, dirExists, files, fd, markdown, prior>>

\* shutil.rmtree(temp_dir) in place of rmdir: the directory goes with
\* whatever is in it.
RmdirTree(r) ==
    /\ pc[r] = "rmdir"
    /\ calls' = Logged(r, "rmdir", dirExists, NoText)
    /\ IF dirExists
       THEN /\ dirExists' = FALSE
            /\ files' = [n \in Names |-> NoFile]
            /\ Finish(r, pending[r])
       ELSE /\ UNCHANGED <<dirExists, files>>
            /\ Finish(r, Raise("FileNotFoundError"))
    /\ UNCHANGED <<procs, req, fd, markdown, prior>>

\* temp_dir.rmdir()
Rmdir(r) ==
    /\ pc[r] = "rmdir"
    /\ calls' = Logged(r, "rmdir", dirExists /\ DirEmpty, NoText)
    /\ CASE ~dirExists -> dirExists' = dirExists /\ Finish(r, Raise("FileNotFoundError"))
         [] dirExists /\ ~DirEmpty -> dirExists' = dirExists /\ Finish(r, Raise("OSError"))
         [] OTHER -> dirExists' = FALSE /\ Finish(r, pending[r])
    /\ UNCHANGED <<procs, req, files, fd, markdown, prior>>

\* ---- text_endpoint ----

\* response = ollama.chat(...); return {"solution": response['message']['content']}
\* The call is not wrapped: its exception leaves the handler as it is.
TextEndpoint(prompt, ollama) ==
    IF ollama = "up" THEN Return(OllamaChat(prompt, NoData)) ELSE Raise("ConnectionError")

TextChat(r) ==
    /\ pc[r] = "text"
    /\ LET out == TextEndpoint(req[r].prompt, req[r].ollama)
       IN  /\ calls' = Logged(r, "chat", out.kind = "return", out.text)
           /\ Finish(r, out)
    /\ UNCHANGED <<procs, req, dirExists, files, fd, markdown, prior>>

Next ==
    \E r \in Requests :
        \/ Receive(r)
        \/ Dispatch(r)
        \/ Mkdir(r)
        \/ Open(r)
        \/ Copy(r)
        \/ Convert(r)
        \/ Chat(r)
        \/ Exists(r)
        \/ Unlink(r)
        \/ DirExists(r)
        \/ IterDir(r)
        \/ Rmdir(r)
        \/ TextChat(r)

\* One server process: a handler body runs to completion before the next starts.
Spec == Init /\ [][Next]_vars

\* Two server processes sharing the working directory: steps interleave.
SpecWorkers == InitWorkers /\ [][Next]_vars

\* ---- Properties ----

Done(r) == pc[r] = "done"

\* Request r went to text_file_endpoint and its body was entered.
FileRequest(r) == req[r].route = FileRoute /\ req[r].prompt # NoPrompt

\* Request r went to text_endpoint and its body was entered.
TextRequest(r) == req[r].route = TextRoute /\ req[r].prompt # NoPrompt

\* Request r made the call name / made it with the given success.
Made(r, name) == \E i \in 1..Len(calls[r]) : calls[r][i].name = name
MadeWith(r, name, ok) ==
    \E i \in 1..Len(calls[r]) : calls[r][i].name = name /\ calls[r][i].ok = ok
Count(r, name) == Cardinality({i \in 1..Len(calls[r]) : calls[r][i].name = name})

Returned(r, name) ==
    IF Made(r, name)
    THEN calls[r][CHOOSE i \in 1..Len(calls[r]) : calls[r][i].name = name].ret
    ELSE NoText

C3_ModelFailureHasDetail ==
    \A r \in Requests :
        (Done(r) /\ MadeWith(r, "chat", FALSE)) =>
            /\ resp[r].status = 500
            /\ resp[r].media = "json" /\ resp[r].key = "detail"
            /\ resp[r].value.cause = "ConnectionError"

C5_IOFailureHasDetail ==
    \A r \in Requests :
        (Done(r) /\ FileRequest(r)
           /\ (MadeWith(r, "open", FALSE) \/ MadeWith(r, "copy", FALSE)
               \/ MadeWith(r, "unlink", FALSE) \/ MadeWith(r, "rmdir", FALSE))) =>
            /\ resp[r].status = 500
            /\ resp[r].media = "json" /\ resp[r].key = "detail"

\* C6: a request without the prompt field is answered 422 on either route,
\* and the handler body does not run for it: it makes no call at all (no
\* mkdir, no write, no conversion, no model call).
C6_MissingPrompt422 ==
    \A r \in Requests :
        (pc[r] # "idle" /\ req[r].prompt = NoPrompt) =>
            /\ calls[r] = <<>>
            /\ ~InBody(r)
            /\ Done(r) => (resp[r].status = 422 /\ resp[r].key = "detail")

\* C6 witness: requests without prompt were answered on both routes.
C6_Witness ==
    \E r, q \in Requests :
        /\ Done(r) /\ req[r].prompt = NoPrompt /\ req[r].route = FileRoute /\ resp[r].status = 422
        /\ Done(q) /\ req[q].prompt = NoPrompt /\ req[q].route = TextRoute /\ resp[q].status = 422

\* The response request r gets for input in when no other request runs:
\* the handlers' pipeline on a scratch directory nobody else touches.
AloneOutcome(r, in) ==
    IF in.route = TextRoute
    THEN TextEndpoint(in.prompt, in.ollama)
    ELSE IF in.disk # "ok"
    THEN Raise("OSError")
    ELSE LET md == ExtractMarkdownFromPdf(File(TRUE, r, in.upload))
         IN  IF md.kind # "return" THEN md
             ELSE GenerateTextFile(md.text.doc, in.prompt, in.ollama)

AloneResponse(r) == ToResponse(AloneOutcome(r, req[r]))

\* No other /text-file/ request uses the filename of request r.
OwnFilename(r) ==
    \A q \in Requests \ {r} : FileRequest(q) => TempFilePath(q) # TempFilePath(r)

\* C7 (as claimed): /text-file/ requests with pairwise different filenames
\* are independent: under every interleaving each gets the response it would
\* get if it ran alone.
C7_Independent ==
    \A r \in Requests :
        (Done(r) /\ FileRequest(r) /\ OwnFilename(r)) => resp[r] = AloneResponse(r)

\* Request r has saved its upload and has not yet converted it.
AwaitingConvert(r) == FileRequest(r) /\ pc[r] = "convert"

\* The file request r saved is no longer what its path holds.
Clobbered(r) ==
    files[TempFilePath(r)] # File(TRUE, files[TempFilePath(r)].ino, req[r].upload)

\* Request q has touched the path of request r.
SharesPath(q, r) ==
    /\ q # r /\ FileRequest(q) /\ TempFilePath(q) = TempFilePath(r)
    /\ (Made(q, "open") \/ Made(q, "unlink"))

\* C8: nothing keeps two /text-file/ requests with one filename apart: a
\* request that has saved its upload and not yet converted it can find the
\* file overwritten or deleted, always by a request with the same filename,
\* and it then fails or is answered from the other request's document.
C8_SameNameRace ==
    \A r \in Requests :
        /\ (AwaitingConvert(r) /\ Clobbered(r)) => \E q \in Requests : SharesPath(q, r)
        /\ (Done(r) /\ FileRequest(r) /\ resp[r].status = 200 /\ resp[r].value.doc.of # r) =>
              \E q \in Requests : SharesPath(q, r) /\ resp[r].value.doc.of = q

\* C8 witness: a request waits to convert while another one with the same
\* filename has deleted the file, or has overwritten it with its own upload.
C8_Witness ==
    \E r, q \in Requests :
        /\ AwaitingConvert(r) /\ SharesPath(q, r)
        /\ ~files[TempFilePath(r)].present \/ files[TempFilePath(r)].data.of = q

\* The calls of the try block and the calls of the finally block.
PipelineCalls == {"open", "copy", "convert", "chat"}
CleanupCalls == {"exists", "unlink", "direxists", "iterdir", "rmdir"}

\* C9: within a /text-file/ request the upload is written, then converted,
\* then sent to the model: the conversion call follows a write that
\* succeeded, the model call a conversion that succeeded, the cleanup starts
\* after the last of them, and none of the three is made twice.
C9_PipelineOrder ==
    \A r \in Requests :
        LET c == calls[r]
        IN  FileRequest(r) =>
              /\ \A n \in PipelineCalls : Count(r, n) <= 1
              /\ \A i \in 1..Len(c) :
                    /\ c[i].name = "open" => (i = 2 /\ c[1].name = "mkdir")
                    /\ c[i].name = "copy" => (i > 1 /\ c[i-1] = Call("open", TRUE, NoText))
                    /\ c[i].name = "convert" => (i > 1 /\ c[i-1] = Call("copy", TRUE, NoText))
                    /\ c[i].name = "chat" =>
                          (i > 1 /\ c[i-1].name = "convert" /\ c[i-1].ok)
                    /\ c[i].name \in CleanupCalls =>
                          \A j \in i..Len(c) : c[j].name \in CleanupCalls
              /\ (c # <<>> /\ c[Len(c)].name \in CleanupCalls) => Made(r, "open")
              /\ Done(r) => Made(r, "exists")

\* C9 witness: a request went through write, conversion, model call and
\* cleanup.
C9_Witness ==
    \E r \in Requests :
        /\ Done(r) /\ FileRequest(r)
        /\ MadeWith(r, "copy", TRUE) /\ MadeWith(r, "convert", TRUE)
        /\ Made(r, "chat") /\ MadeWith(r, "rmdir", TRUE)

\* Every request that arrived has been answered.
Quiescent == \A r \in Requests : pc[r] \in {"idle", "done"}

\* A step of the cleanup of request r.
CleanupStep(r) == pc[r] \in {"exists", "unlink", "direxists", "iterdir", "rmdir"} /\ pc'[r] # pc[r]

\* C10: the cleanup of a /text-file/ request deletes its own path only, and
\* removes the scratch directory only when it has no entries: other files
\* stay as they are and keep the directory, and when all requests have been
\* answered and no foreign file is there, the directory is gone.
C10_Frame ==
    \A r \in Requests :
        CleanupStep(r) =>
            /\ \A n \in Names \ {TempFilePath(r)} : files'[n] = files[n]
            /\ files'[TempFilePath(r)] \in {files[TempFilePath(r)], NoFile}
            /\ (dirExists /\ ~dirExists') => (DirEmpty /\ pc[r] = "rmdir")
            /\ dirExists' => dirExists

C10_Final ==
    /\ ~dirExists => DirEmpty
    /\ (Quiescent /\ ~files[StaleName].present /\ \E r \in Requests : Done(r) /\ FileRequest(r)) =>
          ~dirExists

C10_Cleanup == [](C10_Final) /\ [][C10_Frame]_vars

\* C10 witness: a cleanup left the directory in place because a foreign file
\* was in it, and everything has been answered.
C10_Witness ==
    /\ Quiescent /\ dirExists /\ files[StaleName] = StaleFile
    /\ \E r \in Requests : Done(r) /\ FileRequest(r) /\ MadeWith(r, "unlink", TRUE)
    /\ \A n \in Filenames : ~files[n].present

====
